---- MODULE Spec2Model ----
(***************************************************************************)
(* State-machine model of backend/python/main.py: the module-level startup *)
(* (device selection, model construction, parameter load, eval) followed   *)
(* by the POST /predict handler, which may be entered by several requests  *)
(* that interleave at its single await.                                     *)
(*                                                                         *)
(* Numbers: floating point values are fixed point.  Logits are in tenths;  *)
(* probabilities, pixel intensities after ToTensor and normalised tensor   *)
(* values are in units of 1/SCALE, each division rounding as noted.        *)
(* Sequences are 1-based: Python's CLASS_NAMES[i] is CLASS_NAMES[i + 1].   *)
(***************************************************************************)
EXTENDS Integers, Sequences, FiniteSets, TLC

\* ---------------------------------------------------------------- bounds
\* Number of predict requests the HTTP boundary dispatches in one run.
MaxReqs == 2
\* Fixed-point resolution of probabilities (1.0 is SCALE).
SCALE == 10000

Reqs == 1..MaxReqs

\* ------------------------------------------------------- module constants
\* main.py:30
CLASS_NAMES == <<"Scab", "Black Rot", "Cedar Rust", "Healthy">>

\* Mutant of NUM_CLASSES: the count not updated with the list of names.
NUM_CLASSES_Stale == Len(CLASS_NAMES) + 1

\* main.py:29
NUM_CLASSES == 4

\* ------------------------------------------------------------ arithmetic
RECURSIVE SumTo(_, _)
SumTo(v, n) == IF n = 0 THEN 0 ELSE v[n] + SumTo(v, n - 1)

Sum(v) == SumTo(v, Len(v))

RECURSIVE MaxTo(_, _)
MaxTo(v, n) == IF n = 1 THEN v[1]
               ELSE LET m == MaxTo(v, n - 1) IN IF v[n] > m THEN v[n] ELSE m

MaxOf(v) == MaxTo(v, Len(v))

\* Division rounding to nearest, as IEEE arithmetic does (b > 0).
RoundDiv(a, b) == (2 * a + b) \div (2 * b)

\* exp(-q) in units of 1/SCALE for whole q >= 0, by repeated multiplication
\* with exp(-1) = 0.3679; it underflows to 0 for large q as the float exp
\* does.
RECURSIVE ExpUnits(_)
ExpUnits(q) == IF q = 0 THEN SCALE ELSE (ExpUnits(q - 1) * 3679) \div 10000

\* exp(-r / 10) for r = 0..9, in ten-thousandths.
ExpTenths == <<10000, 9048, 8187, 7408, 6703, 6065, 5488, 4966, 4493, 4066>>

\* exp(-d / 10) in units of 1/SCALE for d >= 0 tenths.
ExpFix(d) == (ExpUnits(d \div 10) * ExpTenths[(d % 10) + 1]) \div 10000

\* ------------------------------------------------------- uploaded bytes
\* What a request body can hold: an empty buffer, text, an image file whose
\* header parses but whose pixel data is cut short, and well-formed 1x1
\* images of three colour modes.
NoPixels == << >>

EmptyUpload == [kind |-> "empty", mode |-> "", px |-> NoPixels]
TextUpload  == [kind |-> "text", mode |-> "", px |-> NoPixels]
TruncUpload == [kind |-> "truncated", mode |-> "RGB", px |-> NoPixels]
GrayUpload  == [kind |-> "image", mode |-> "L", px |-> <<128>>]
RgbUpload   == [kind |-> "image", mode |-> "RGB", px |-> <<128, 128, 128>>]
RgbaUpload  == [kind |-> "image", mode |-> "RGBA", px |-> <<255, 0, 64, 128>>]

ValidUploads == {GrayUpload, RgbUpload, RgbaUpload}
Uploads == {EmptyUpload, TextUpload, TruncUpload} \cup ValidUploads

\* ------------------------------------------------------ image pipeline
NoImage == [mode |-> "", px |-> NoPixels]

\* Mutant of ImageOpen: undecodable bytes fall back to a grey placeholder.
ImageOpenDefault(b) ==
    IF b.kind \in {"image", "truncated"}
    THEN [ok |-> TRUE, image |-> [mode |-> b.mode, px |-> b.px], error |-> ""]
    ELSE [ok |-> TRUE, image |-> [mode |-> "RGB", px |-> <<128, 128, 128>>], error |-> ""]

\* PIL Image.open(io.BytesIO(b)): identifies the format from the header and
\* raises UnidentifiedImageError when there is none; pixel data is loaded
\* lazily, so a truncated file opens.
ImageOpen(b) ==
    IF b.kind \in {"image", "truncated"}
    THEN [ok |-> TRUE, image |-> [mode |-> b.mode, px |-> b.px], error |-> ""]
    ELSE [ok |-> FALSE, image |-> NoImage, error |-> "UnidentifiedImageError"]

\* Image.convert("RGB"): loads the pixel data (OSError when it is cut
\* short), replicates a grey level over three channels, drops alpha.
ConvertRGB(img) ==
    IF img.px = NoPixels
    THEN [ok |-> FALSE, image |-> NoImage, error |-> "OSError"]
    ELSE [ok |-> TRUE, error |-> "",
          image |-> [mode |-> "RGB",
                     px |-> CASE img.mode = "L" -> <<img.px[1], img.px[1], img.px[1]>>
                              [] img.mode = "RGBA" -> <<img.px[1], img.px[2], img.px[3]>>
                              [] OTHER -> img.px]]

\* main.py:43-48, the Compose built at startup.
TransformConfig ==
    [size |-> <<224, 224>>,
     mean |-> <<485, 456, 406>>,
     std  |-> <<229, 224, 225>>]

NoTransform == [size |-> <<0, 0>>, mean |-> << >>, std |-> << >>]

\* transform(image).unsqueeze(0).to(DEVICE): Resize of a solid image keeps
\* its colour; ToTensor scales 0..255 to [0, 1]; Normalize subtracts the
\* channel mean and divides by the channel deviation (both in thousandths).
\* The result is the batch of one solid image: its shape and one value per
\* channel.
ApplyTransform(t, img, dev) ==
    [shape |-> <<1, 3, t.size[1], t.size[2]>>,
     device |-> dev,
     chan |-> [c \in 1..3 |->
                 RoundDiv(1000 * (RoundDiv(img.px[c] * SCALE, 255)
                                   - (t.mean[c] * SCALE) \div 1000),
                          t.std[c])]]

\* ------------------------------------------------------------ network
\* The distinct network inputs the valid uploads produce (per-channel
\* values of the normalised tensor).
Inputs ==
    {ApplyTransform(TransformConfig, ConvertRGB(ImageOpen(u).image).image, "cpu").chan :
        u \in ValidUploads}

\* Logit vectors (tenths) a network with w outputs may produce: the spec's
\* example, a tie between the first two classes, a tie between the last
\* three and a spread wide enough for exp to underflow.
LogitVecs(w) ==
    CASE w = 3 -> {<<0, 10, 5>>}
      [] w = 4 -> {<<1, 50, 2, 3>>, <<20, 20, 0, 0>>, <<0, 5, 5, 5>>, <<-30, 0, 0, 90>>}
      [] w = 5 -> {<<1, 50, 2, 3, 0>>, <<0, 0, 0, 0, 30>>}
      [] OTHER -> {[c \in 1..w |-> 0]}

ZeroNet(w) == [i \in Inputs |-> [c \in 1..w |-> 0]]

\* What "model.pth" may hold.  A state dict is abstracted to the architecture
\* its keys belong to, the width of its final layer and the input -> logits
\* map its weights induce in evaluation mode.
MissingFile == [kind |-> "missing", arch |-> "", num_classes |-> 0, net |-> ZeroNet(0)]
CorruptFile == [kind |-> "corrupt", arch |-> "", num_classes |-> 0, net |-> ZeroNet(0)]
NoState     == [kind |-> "", arch |-> "", num_classes |-> 0, net |-> ZeroNet(0)]

StateDicts(arch, w) ==
    {[kind |-> "state_dict", arch |-> arch, num_classes |-> w, net |-> n] :
        n \in [Inputs -> LogitVecs(w)]}

ParamFiles ==
    {MissingFile, CorruptFile}
    \cup StateDicts("efficientnet_b0", 3)
    \cup StateDicts("efficientnet_b0", 4)
    \cup StateDicts("efficientnet_b0", 5)
    \cup {[kind |-> "state_dict", arch |-> "resnet18", num_classes |-> 4,
           net |-> ZeroNet(4)]}

NoModel ==
    [arch |-> "", num_classes |-> 0, net |-> ZeroNet(0), training |-> TRUE,
     device |-> "", num_batches_tracked |-> 0]

\* ------------------------------------------------------------------ state
VARIABLES
    cuda_available,  \* torch.cuda.is_available()
    paramFile,       \* the file "model.pth" on disk
    phase,           \* position of the module-level code
    DEVICE,          \* main.py:27
    model,           \* main.py:32
    state,           \* main.py:38
    transform,       \* main.py:43
    pc,              \* per request: position in predict
    upload,          \* per request: the bytes of its file field
    loc,             \* per request: predict's local variables
    resp             \* per request: the HTTP response sent

vars == <<cuda_available, paramFile, phase, DEVICE, model, state, transform,
          pc, upload, loc, resp>>

shared == <<DEVICE, model, transform>>
requests == <<pc, upload, loc, resp>>
environment == <<cuda_available, paramFile>>

NoTensor == [shape |-> << >>, device |-> "", chan |-> << >>]

NoLocals == [image |-> NoImage, x |-> NoTensor, logits |-> << >>, probs |-> << >>, idx |-> 0]
NoResp == [status |-> 0, class |-> "", confidence |-> -1, error |-> ""]

Init ==
    /\ cuda_available \in BOOLEAN
    /\ paramFile \in ParamFiles
    /\ phase = "device"
    /\ DEVICE = ""
    /\ model = NoModel
    /\ state = NoState
    /\ transform = NoTransform
    /\ pc = [r \in Reqs |-> "idle"]
    /\ upload = [r \in Reqs |-> EmptyUpload]
    /\ loc = [r \in Reqs |-> NoLocals]
    /\ resp = [r \in Reqs |-> NoResp]

\* ---------------------------------------------------------------- startup
\* main.py:27
SelectDevice ==
    /\ phase = "device"
    /\ DEVICE' = IF cuda_available THEN "cuda" ELSE "cpu"
    /\ phase' = "create"
    /\ UNCHANGED <<environment, model, state, transform, requests>>

\* main.py:32-36: a randomly initialised network (pretrained=False) with
\* NUM_CLASSES outputs, on the cpu, in training mode.
CreateModel ==
    /\ phase = "create"
    /\ model' = [arch |-> "efficientnet_b0", num_classes |-> NUM_CLASSES,
                 net |-> ZeroNet(NUM_CLASSES), training |-> TRUE,
                 device |-> "cpu", num_batches_tracked |-> 0]
    /\ phase' = "torch_load"
    /\ UNCHANGED <<environment, DEVICE, state, transform, requests>>

\* main.py:38: FileNotFoundError or UnpicklingError end the import.
TorchLoad ==
    /\ phase = "torch_load"
    /\ IF paramFile.kind = "state_dict"
       THEN state' = paramFile /\ phase' = "load_state_dict"
       ELSE state' = state /\ phase' = "failed"
    /\ UNCHANGED <<environment, DEVICE, model, transform, requests>>

\* Mutant of LoadStateDictResult: strict=False with mismatches skipped, so a
\* state dict that does not fit leaves the random initialisation in place.
LoadStateDictNonStrict(m, s) ==
    IF s.arch = m.arch /\ s.num_classes = m.num_classes
    THEN [ok |-> TRUE, model |-> [m EXCEPT !.net = s.net]]
    ELSE [ok |-> TRUE, model |-> m]

\* model.load_state_dict(state) with the default strict=True: raises
\* RuntimeError on missing or unexpected keys and on any size mismatch,
\* otherwise copies the parameters and buffers into the module.
LoadStateDictResult(m, s) ==
    IF s.arch = m.arch /\ s.num_classes = m.num_classes
    THEN [ok |-> TRUE, model |-> [m EXCEPT !.net = s.net]]
    ELSE [ok |-> FALSE, model |-> m]

\* main.py:39
LoadStateDict ==
    /\ phase = "load_state_dict"
    /\ LET res == LoadStateDictResult(model, state) IN
         /\ model' = res.model
         /\ phase' = IF res.ok THEN "to_device" ELSE "failed"
    /\ UNCHANGED <<environment, DEVICE, state, transform, requests>>

\* main.py:40
ToDevice ==
    /\ phase = "to_device"
    /\ model' = [model EXCEPT !.device = DEVICE]
    /\ phase' = "eval"
    /\ UNCHANGED <<environment, DEVICE, state, transform, requests>>

\* Mutant of Eval: the call is left out and the network stays in training
\* mode.
EvalSkipped ==
    /\ phase = "eval"
    /\ phase' = "transform"
    /\ UNCHANGED <<environment, DEVICE, model, state, transform, requests>>

\* main.py:41
Eval ==
    /\ phase = "eval"
    /\ model' = [model EXCEPT !.training = FALSE]
    /\ phase' = "transform"
    /\ UNCHANGED <<environment, DEVICE, state, transform, requests>>

\* main.py:43-48; the import then completes and the server starts to
\* accept requests.
BuildTransform ==
    /\ phase = "transform"
    /\ transform' = TransformConfig
    /\ phase' = "serving"
    /\ UNCHANGED <<environment, DEVICE, model, state, requests>>

\* ---------------------------------------------------------------- predict
\* Mutant of FileRead: the bytes are kept in one module-level buffer, which
\* holds those of the latest request in flight.
FileReadShared(r) ==
    upload[CHOOSE q \in Reqs :
              /\ pc[q] = "reading"
              /\ \A o \in Reqs : pc[o] = "reading" => o <= q]

\* await file.read(): the bytes of the request's own file field.
FileRead(r) == upload[r]

\* model(x) under torch.no_grad().  In evaluation mode the logits are the
\* function the loaded weights induce and no buffer is written.  In training
\* mode batch normalisation uses the statistics of the batch, so the logits
\* are not that function (any vector of the output width), and it updates
\* its running statistics and num_batches_tracked, with or without no_grad.
\* A forward pass can also fail: input and weights on different devices, or
\* the device running out of memory (RuntimeError).
Forward(m, x) ==
    LET after == IF m.training
                 THEN [m EXCEPT !.num_batches_tracked = @ + 1]
                 ELSE m
        failed == [ok |-> FALSE, logits |-> << >>, model |-> after]
    IN  IF x.device # m.device
        THEN {[failed EXCEPT !.model = m]}
        ELSE {failed} \cup
             {[ok |-> TRUE, logits |-> l, model |-> after] :
                 l \in IF m.training THEN LogitVecs(m.num_classes) ELSE {m.net[x.chan]}}

\* Mutant of Softmax: the logits are returned as they are (tenths to units
\* of 1/SCALE).
SoftmaxSkipped(l) == [i \in 1..Len(l) |-> l[i] * (SCALE \div 10)]

\* Mutant of Softmax: dim=0, the batch dimension of size one, so that every
\* entry is normalised by itself.
SoftmaxDim0(l) == [i \in 1..Len(l) |-> SCALE]

\* torch.softmax(logits, dim=1)[0]: exp(l_i - max) / sum_j exp(l_j - max),
\* each entry rounded to the nearest representable value.
Softmax(l) ==
    LET m == MaxOf(l)
        e == [i \in 1..Len(l) |-> ExpFix(m - l[i])]
        s == Sum(e)
    IN  [i \in 1..Len(l) |-> RoundDiv(e[i] * SCALE, s)]

\* Mutant of Argmax: the last index holding the maximum.
ArgmaxLast(p) ==
    CHOOSE i \in 1..Len(p) :
        /\ p[i] = MaxOf(p)
        /\ \A j \in (i + 1)..Len(p) : p[j] < p[i]

\* int(torch.argmax(probs)): the first index holding the maximum.
Argmax(p) ==
    CHOOSE i \in 1..Len(p) :
        /\ p[i] = MaxOf(p)
        /\ \A j \in 1..(i - 1) : p[j] < p[i]

\* An exception that leaves the handler: no handler is registered for it and
\* predict raises no HTTPException, so the server answers "500 Internal
\* Server Error" and goes on serving.
Unhandled(err) == [status |-> 500, class |-> "", confidence |-> -1, error |-> err]

\* main.py:52-63 from the resumption after the await to the return, for
\* bytes b: the set of possible outcomes, each the locals at the end, the
\* response and the model as the forward pass leaves it.
PredictBody(b, m, t, dev) ==
    LET opened == ImageOpen(b)
        conv   == ConvertRGB(opened.image)
        x      == ApplyTransform(t, conv.image, dev)
    IN  IF ~opened.ok
        THEN {[loc |-> NoLocals, resp |-> Unhandled(opened.error), model |-> m]}
        ELSE IF ~conv.ok
        THEN {[loc |-> NoLocals, resp |-> Unhandled(conv.error), model |-> m]}
        ELSE
          {LET l1 == [NoLocals EXCEPT !.image = conv.image, !.x = x]
           IN  IF ~f.ok
               THEN [loc |-> l1, resp |-> Unhandled("RuntimeError"), model |-> f.model]
               ELSE
                 LET probs == Softmax(f.logits)
                     idx   == Argmax(probs)
                     l2    == [l1 EXCEPT !.logits = f.logits, !.probs = probs, !.idx = idx]
                 IN  IF idx > Len(CLASS_NAMES)
                     THEN [loc |-> l2, resp |-> Unhandled("IndexError"), model |-> f.model]
                     ELSE [loc |-> l2, model |-> f.model,
                           resp |-> [status |-> 200, class |-> CLASS_NAMES[idx],
                                     confidence |-> probs[idx], error |-> ""]]
           : f \in Forward(m, x)}

\* A request for POST /predict arrives: the handler starts and suspends at
\* "await file.read()".  Requests are accepted only once the import is done.
Receive(r, b) ==
    /\ phase = "serving"
    /\ pc[r] = "idle"
    /\ pc' = [pc EXCEPT ![r] = "reading"]
    /\ upload' = [upload EXCEPT ![r] = b]
    /\ UNCHANGED <<environment, phase, shared, state, loc, resp>>

\* The await completes and the handler runs to its end without yielding.
Handle(r) ==
    /\ phase = "serving"
    /\ pc[r] = "reading"
    /\ \E out \in PredictBody(FileRead(r), model, transform, DEVICE) :
         /\ model' = out.model
         /\ loc' = [loc EXCEPT ![r] = out.loc]
         /\ resp' = [resp EXCEPT ![r] = out.resp]
    /\ pc' = [pc EXCEPT ![r] = "done"]
    /\ UNCHANGED <<environment, phase, DEVICE, transform, state, upload>>

Next ==
    \/ SelectDevice
    \/ CreateModel
    \/ TorchLoad
    \/ LoadStateDict
    \/ ToDevice
    \/ Eval
    \/ BuildTransform
    \/ \E r \in Reqs, b \in Uploads : Receive(r, b)
    \/ \E r \in Reqs : Handle(r)

Spec == Init /\ [][Next]_vars

\* ----------------------------------------------------------- properties
Done(r) == pc[r] = "done"

Names == {CLASS_NAMES[i] : i \in 1..Len(CLASS_NAMES)}

\* The forward pass ran to its end for request r.
HasLogits(r) == loc[r].logits # << >>

\* The bytes of request r are no decodable image.
Undecodable(b) == b \notin ValidUploads

\* C1: whenever the bytes of a request decode to a valid image and the
\* forward pass yields logits, the request is answered 200 with a class that
\* is one of CLASS_NAMES and a confidence in [0, 1], and the index argmax
\* computed is a valid index into CLASS_NAMES (no IndexError).
C1_LabelAndConfidenceInRange ==
    \A r \in Reqs :
        (Done(r) /\ upload[r] \in ValidUploads) =>
            /\ resp[r].error # "IndexError"
            /\ HasLogits(r) =>
                 /\ loc[r].idx \in 1..Len(CLASS_NAMES)
                 /\ resp[r].status = 200
                 /\ resp[r].class \in Names
                 /\ resp[r].confidence >= 0
                 /\ resp[r].confidence <= SCALE

C1_Witness ==
    \E r \in Reqs :
        /\ Done(r)
        /\ upload[r] = RgbaUpload
        /\ resp[r].status = 200
        /\ resp[r].class = "Healthy"

\* C2: a request whose bytes are no decodable image ends with the decode
\* error; it gets no class and no confidence, the transform and the forward
\* pass never ran for it, and the process is still serving: any request not
\* yet made can still be received.
C2_DecodeErrorNoPrediction ==
    \A r \in Reqs :
        (Done(r) /\ Undecodable(upload[r])) =>
            /\ resp[r].error \in {"UnidentifiedImageError", "OSError"}
            /\ resp[r].status # 200
            /\ resp[r].class = ""
            /\ resp[r].confidence = -1
            /\ loc[r] = NoLocals
            /\ phase = "serving"
            /\ \A q \in Reqs : pc[q] = "idle" => ENABLED Receive(q, RgbUpload)

C2_Witness ==
    \E r, q \in Reqs :
        /\ Done(r) /\ upload[r] = EmptyUpload
        /\ resp[r].error = "UnidentifiedImageError"
        /\ Done(q) /\ upload[q] = TextUpload
        /\ resp[q].error = "UnidentifiedImageError"

\* C3: a decode failure is answered with a client-error status (4xx).
C3_DecodeErrorIsClientError ==
    \A r \in Reqs :
        (Done(r) /\ Undecodable(upload[r])) =>
            (resp[r].status >= 400 /\ resp[r].status <= 499)

\* Every startup step has succeeded: the parameter file is a state dict that
\* fits the architecture, its weights are in the model, the model is on
\* DEVICE and in evaluation mode, and the transform is built.
StartupComplete ==
    /\ phase = "serving"
    /\ paramFile.kind = "state_dict"
    /\ paramFile.arch = "efficientnet_b0"
    /\ paramFile.num_classes = NUM_CLASSES
    /\ state = paramFile
    /\ model.net = paramFile.net
    /\ model.num_classes = NUM_CLASSES
    /\ DEVICE \in {"cuda", "cpu"}
    /\ model.device = DEVICE
    /\ ~model.training
    /\ transform = TransformConfig

\* C4: a request is received or handled only when the whole startup load
\* has succeeded; the process serves only in that case, and after a failed
\* startup step no request is ever taken.
C4_ServeOnlyAfterLoad ==
    /\ (\E r \in Reqs : pc[r] # "idle") => StartupComplete
    /\ phase = "serving" => StartupComplete
    /\ phase = "failed" => \A r \in Reqs : pc[r] = "idle" /\ resp[r] = NoResp

C4_Witness ==
    /\ phase = "failed"
    /\ state.kind = "state_dict"
    /\ state.arch = "resnet18"

\* C5: a parameter file whose final layer is not len(CLASS_NAMES) wide never
\* leads to serving or to a request being taken, and whenever the process
\* serves, the output width of the model, NUM_CLASSES and len(CLASS_NAMES)
\* are equal.
C5_WidthsAgree ==
    /\ (paramFile.kind = "state_dict" /\ paramFile.num_classes # Len(CLASS_NAMES)) =>
          /\ phase # "serving"
          /\ \A r \in Reqs : pc[r] = "idle"
    /\ phase = "serving" =>
          /\ model.num_classes = NUM_CLASSES
          /\ NUM_CLASSES = Len(CLASS_NAMES)
          /\ \A i \in Inputs : Len(model.net[i]) = Len(CLASS_NAMES)

C5_Witness ==
    /\ phase = "failed"
    /\ state.kind = "state_dict"
    /\ state.arch = "efficientnet_b0"
    /\ state.num_classes = Len(CLASS_NAMES) + 1

LoadedModel ==
    [arch |-> "efficientnet_b0", num_classes |-> NUM_CLASSES, net |-> paramFile.net,
     training |-> FALSE, device |-> IF cuda_available THEN "cuda" ELSE "cpu",
     num_batches_tracked |-> 0]

\* The responses a request with bytes b can get when it is the only request
\* the process ever handles.
AloneResponses(b) ==
    {o.resp : o \in PredictBody(b, LoadedModel, TransformConfig, LoadedModel.device)}

\* C7: while the process serves, no step writes the model, the transform or
\* DEVICE, and every finished request has a response it could have got had it
\* run alone, however the requests interleave at the await.
C7_Isolated ==
    /\ [][phase = "serving" => UNCHANGED shared]_vars
    /\ [](\A r \in Reqs : Done(r) => resp[r] \in AloneResponses(upload[r]))

C7_Witness ==
    \E r, q \in Reqs :
        /\ pc[r] = "reading" /\ upload[r] = RgbaUpload
        /\ Done(q) /\ upload[q] = GrayUpload
        /\ resp[q].status = 200
        /\ model.net[loc[q].x.chan] # model.net[ApplyTransform(transform,
               ConvertRGB(ImageOpen(upload[r]).image).image, DEVICE).chan]

\* C8: the step in which a request fails (decode error, or an error in the
\* forward pass) leaves the model, the transform and DEVICE as they were.
C8_FailureLeavesSharedState ==
    [][\A r \in Reqs :
          (pc[r] = "reading" /\ pc'[r] = "done" /\ resp'[r].status # 200) =>
              UNCHANGED shared]_vars

C8_Witness ==
    \E r, q \in Reqs :
        /\ Done(r) /\ resp[r].error = "RuntimeError"
        /\ Done(q) /\ resp[q].error = "UnidentifiedImageError"

\* C9: a prediction names the class at the lowest index that holds the
\* maximum probability, and its confidence is the probability at that index;
\* logits [0.1, 5.0, 0.2, 0.3] give 'Black Rot' with softmax(logits)[1].
C9_ArgmaxLowestIndex ==
    \A r \in Reqs :
        (Done(r) /\ resp[r].status = 200) =>
            /\ \E i \in 1..Len(CLASS_NAMES) :
                 /\ loc[r].idx = i
                 /\ resp[r].class = CLASS_NAMES[i]
                 /\ resp[r].confidence = loc[r].probs[i]
                 /\ \A j \in 1..Len(loc[r].probs) : loc[r].probs[j] <= loc[r].probs[i]
                 /\ \A j \in 1..(i - 1) : loc[r].probs[j] < loc[r].probs[i]
            /\ loc[r].logits = <<1, 50, 2, 3>> =>
                 /\ resp[r].class = "Black Rot"
                 /\ resp[r].confidence = loc[r].probs[2]
                 /\ resp[r].confidence > SCALE \div 2

C9_Witness ==
    \E r, q \in Reqs :
        /\ Done(r) /\ loc[r].logits = <<1, 50, 2, 3>> /\ resp[r].class = "Black Rot"
        /\ Done(q) /\ loc[q].logits = <<20, 20, 0, 0>> /\ resp[q].class = "Scab"

\* C10: the probability vector of a request has one entry per class, no
\* entry is negative, and the entries sum to 1 up to one unit of resolution
\* per entry.
C10_SoftmaxSumsToOne ==
    \A r \in Reqs :
        HasLogits(r) =>
            /\ Len(loc[r].probs) = Len(CLASS_NAMES)
            /\ \A i \in 1..Len(loc[r].probs) : loc[r].probs[i] >= 0
            /\ Sum(loc[r].probs) - SCALE <= Len(loc[r].probs)
            /\ SCALE - Sum(loc[r].probs) <= Len(loc[r].probs)

C10_Witness ==
    \E r \in Reqs :
        /\ Done(r)
        /\ loc[r].logits = <<0, 5, 5, 5>>
        /\ Sum(loc[r].probs) # SCALE

====
